---- MODULE Spec2Model ----
(***************************************************************************)
(* The node codec of the B+Tree (package index): a BNode is a view of one  *)
(* page of bytes, read and written through typed accessors.  All position  *)
(* arithmetic in the accessors is Go uint16 arithmetic and wraps modulo    *)
(* 2^16; a slice expression data[low:high] panics unless                   *)
(* low <= high <= cap(data).                                               *)
(*                                                                         *)
(* A uint64 is represented by its four 16-bit limbs, least significant     *)
(* first, because the model checker's integers are 32 bits wide.           *)
(***************************************************************************)
EXTENDS Integers, Sequences, FiniteSets, TLC

VARIABLES data, op, args, panicked, ret, rpos, nmut

vars == <<data, op, args, panicked, ret, rpos, nmut>>

(* ---- constants of the package ---------------------------------------- *)
BNode_Node == 0
BNode_Leaf == 1
Header == 4
BTreePageSize == 4096
BTreeMaxKeySize == 1000
BTreeMaxValSizeLoose == BTreePageSize - Header
BTreeMaxValSize == 3000

(* width of Go's uint16 *)
W16 == 2^16

(* number of setter calls explored on one node *)
MaxMut == 2

(* ---- encoding/binary.LittleEndian ------------------------------------ *)
Uint16BigEndian(b) == b[1] * 256 + b[2]
Uint16(b) == b[1] + b[2] * 256
PutUint16(v) == <<v % 256, (v \div 256) % 256>>
Uint64(b) == <<Uint16(<<b[1], b[2]>>), Uint16(<<b[3], b[4]>>),
               Uint16(<<b[5], b[6]>>), Uint16(<<b[7], b[8]>>)>>
PutUint64(p) == PutUint16(p[1]) \o PutUint16(p[2]) \o PutUint16(p[3]) \o PutUint16(p[4])

(* ---- Go slice expressions on node.data ------------------------------- *)
(* data[low:high] is legal iff low <= high <= cap(data); the page buffer  *)
(* has len = cap = BTreePageSize.                                         *)
SliceOK(low, high) == low <= high /\ high <= BTreePageSize
Bytes(d, low, high) == [k \in 1..(high - low) |-> d[low + k - 1]]
Store(d, low, b) ==
    [k \in DOMAIN d |-> IF low <= k /\ k < low + Len(b) THEN b[k - low + 1] ELSE d[k]]

(* result of a call: ok = returned normally, v = the value (a uint16 as a *)
(* one-element sequence, a uint64 as limbs, a slice as its bytes), pos =  *)
(* the index in data the value was read from                              *)
Fail == [ok |-> FALSE, v |-> <<>>, pos |-> 0]
Ok(v, pos) == [ok |-> TRUE, v |-> v, pos |-> pos]

(* ---- BNode accessors -------------------------------------------------- *)
bType(d) == Uint16(Bytes(d, 0, 2))
numKeys(d) == Uint16(Bytes(d, 2, 4))

setHeader(d, t, n) == Store(Store(d, 0, PutUint16(t)), 2, PutUint16(n))

getPtr(d, i) ==
    LET pos == (Header + i * 8) % W16
        hi == (pos + 8) % W16
    IN  IF SliceOK(pos, hi) THEN Ok(Uint64(Bytes(d, pos, hi)), pos) ELSE Fail

(* setPtr: ok = FALSE means the call panicked and d is untouched *)
setPtr(d, i, p) ==
    LET pos == (Header + i * 8) % W16
        hi == (pos + 8) % W16
    IN  IF SliceOK(pos, hi) THEN [ok |-> TRUE, d |-> Store(d, pos, PutUint64(p))]
        ELSE [ok |-> FALSE, d |-> d]

offsetPosNoUpper(d, idx) ==
    IF 1 <= idx
    THEN Ok(<<(Header + numKeys(d) * 8 + (idx - 1) * 2) % W16>>, 0)
    ELSE Fail
offsetPos(d, idx) ==
    IF 1 <= idx /\ idx <= numKeys(d)
    THEN Ok(<<(Header + numKeys(d) * 8 + (idx - 1) * 2) % W16>>, 0)
    ELSE Fail

getOffset(d, idx) ==
    LET p == offsetPos(d, idx)
    IN  IF ~p.ok THEN Fail
        ELSE LET pos == p.v[1]
                 hi == (pos + 2) % W16
             IN  IF SliceOK(pos, hi) THEN Ok(<<Uint16(Bytes(d, pos, hi))>>, pos) ELSE Fail

setOffset(d, idx, offset) ==
    LET p == offsetPos(d, idx)
    IN  IF ~p.ok THEN [ok |-> FALSE, d |-> d]
        ELSE LET pos == p.v[1]
                 hi == (pos + 2) % W16
             IN  IF SliceOK(pos, hi) THEN [ok |-> TRUE, d |-> Store(d, pos, PutUint16(offset))]
                 ELSE [ok |-> FALSE, d |-> d]

kvPos(d, idx) ==
    IF ~(idx <= numKeys(d)) THEN Fail
    ELSE LET o == getOffset(d, idx)
         IN  IF ~o.ok THEN Fail
             ELSE Ok(<<(Header + 8 * numKeys(d) + 2 * numKeys(d) + o.v[1]) % W16>>, o.pos)

getKey(d, idx) ==
    IF ~(idx <= numKeys(d)) THEN Fail
    ELSE LET p == kvPos(d, idx)
         IN  IF ~p.ok THEN Fail
             ELSE LET pos == p.v[1]
                  IN  IF ~SliceOK(pos, (pos + 2) % W16) THEN Fail
                      ELSE LET klen == Uint16(Bytes(d, pos, pos + 2))
                               low == (pos + 4) % W16
                               high == (pos + 4 + klen) % W16
                           IN  IF SliceOK(low, high) THEN Ok(Bytes(d, low, high), low)
                               ELSE Fail

getVal(d, idx) ==
    IF ~(idx <= numKeys(d)) THEN Fail
    ELSE LET p == kvPos(d, idx)
         IN  IF ~p.ok THEN Fail
             ELSE LET pos == p.v[1]
                  IN  IF ~SliceOK(pos, (pos + 2) % W16) THEN Fail
                      ELSE IF ~SliceOK((pos + 2) % W16, (pos + 4) % W16) THEN Fail
                      ELSE LET klen == Uint16(Bytes(d, pos, pos + 2))
                               vlen == Uint16(Bytes(d, pos + 2, pos + 4))
                               low == (pos + 4 + klen) % W16
                               high == (pos + 4 + klen + vlen) % W16
                           IN  IF SliceOK(low, high) THEN Ok(Bytes(d, low, high), low)
                               ELSE Fail

numBytes(d) == kvPos(d, numKeys(d))

(* ---- the page format --------------------------------------------------- *)
(* | type 2B | nkeys 2B | pointers nkeys*8B | offsets nkeys*2B | key-values *)
(* each key-value: | klen 2B | vlen 2B | key | val |                        *)
RecordBytes(r) == PutUint16(Len(r.k)) \o PutUint16(Len(r.v)) \o r.k \o r.v

RECURSIVE Packed(_)
Packed(recs) == IF recs = <<>> THEN <<>> ELSE RecordBytes(Head(recs)) \o Packed(Tail(recs))

RECURSIVE EndOf(_, _)
EndOf(recs, j) == IF j = 0 THEN 0 ELSE EndOf(recs, j - 1) + Len(RecordBytes(recs[j]))

Layout(t, ptrs, recs, fill) ==
    LET n == Len(recs)
        packed == Packed(recs)
        base == Header + 8 * n + 2 * n
    IN  [b \in 0..(BTreePageSize - 1) |->
            IF b < 2 THEN PutUint16(t)[b + 1]
            ELSE IF b < Header THEN PutUint16(n)[b - 1]
            ELSE IF b < Header + 8 * n
                 THEN PutUint64(ptrs[((b - Header) \div 8) + 1])[((b - Header) % 8) + 1]
            ELSE IF b < base
                 THEN PutUint16(EndOf(recs, ((b - Header - 8 * n) \div 2) + 1))
                               [((b - Header - 8 * n) % 2) + 1]
            ELSE IF b - base < Len(packed) THEN packed[b - base + 1]
            ELSE fill]

(* ---- sample values ----------------------------------------------------- *)
PtrA == <<513, 1027, 1541, 65535>>
PtrB == <<7, 0, 0, 0>>
NoPtr == <<0, 0, 0, 0>>

Ramp(len) == [k \in 1..len |-> (k % 250) + 1]

EmptyLeaf == Layout(BNode_Leaf, <<>>, <<>>, 0)
SmallLeaf ==
    Layout(BNode_Leaf, <<NoPtr, NoPtr>>,
           <<[k |-> <<97>>, v |-> <<49, 50>>], [k |-> <<98, 99>>, v |-> <<51>>]>>, 2)
SmallInternal ==
    Layout(BNode_Node, <<PtrA, PtrB>>,
           <<[k |-> <<>>, v |-> <<>>], [k |-> <<109>>, v |-> <<>>]>>, 0)
MaxLeaf ==
    Layout(BNode_Leaf, <<NoPtr>>,
           <<[k |-> Ramp(BTreeMaxKeySize), v |-> Ramp(BTreeMaxValSize)]>>, 0)

SamplePages == {EmptyLeaf, SmallLeaf, SmallInternal, MaxLeaf}

HeaderInputs == {<<BNode_Leaf, 1>>, <<258, 6554>>}
PtrIndexes == {0, 2, 8192}
PtrValues == {PtrA}
OffsetIndexes == {0, 1, 3, 6552}
OffsetValues == {772}
KvIndexes == {0, 1, 2, 3}

(* ---- the state machine -------------------------------------------------- *)
Init ==
    /\ data \in SamplePages
    /\ op = "new"
    /\ args = <<>>
    /\ panicked = FALSE
    /\ ret = <<>>
    /\ rpos = 0
    /\ nmut = 0

Read(name, a, r) ==
    /\ op' = name
    /\ args' = a
    /\ panicked' = ~r.ok
    /\ ret' = r.v
    /\ rpos' = r.pos
    /\ UNCHANGED <<data, nmut>>

Write(name, a, r) ==
    /\ nmut < MaxMut
    /\ op' = name
    /\ args' = a
    /\ panicked' = ~r.ok
    /\ ret' = <<>>
    /\ rpos' = 0
    /\ data' = r.d
    /\ nmut' = nmut + 1

Call_bType == Read("bType", <<>>, Ok(<<bType(data)>>, 0))
Call_numKeys == Read("numKeys", <<>>, Ok(<<numKeys(data)>>, 2))
Call_setHeader ==
    \E h \in HeaderInputs :
        Write("setHeader", h, [ok |-> TRUE, d |-> setHeader(data, h[1], h[2])])
Call_getPtr == \E i \in PtrIndexes : Read("getPtr", <<i>>, getPtr(data, i))
Call_setPtr ==
    \E i \in PtrIndexes, p \in PtrValues : Write("setPtr", <<i>> \o p, setPtr(data, i, p))
Call_getOffset == \E idx \in OffsetIndexes : Read("getOffset", <<idx>>, getOffset(data, idx))
Call_setOffset ==
    \E idx \in OffsetIndexes, o \in OffsetValues :
        Write("setOffset", <<idx, o>>, setOffset(data, idx, o))
Call_kvPos == \E idx \in KvIndexes : Read("kvPos", <<idx>>, kvPos(data, idx))
Call_getKey == \E idx \in KvIndexes : Read("getKey", <<idx>>, getKey(data, idx))
Call_getVal == \E idx \in KvIndexes : Read("getVal", <<idx>>, getVal(data, idx))
Call_numBytes == Read("numBytes", <<>>, numBytes(data))

Next ==
    \/ Call_bType
    \/ Call_numKeys
    \/ Call_setHeader
    \/ Call_getPtr
    \/ Call_setPtr
    \/ Call_getOffset
    \/ Call_setOffset
    \/ Call_kvPos
    \/ Call_getKey
    \/ Call_getVal
    \/ Call_numBytes

Spec == Init /\ [][Next]_vars

TypeOK ==
    /\ DOMAIN data = 0..(BTreePageSize - 1)
    /\ panicked \in BOOLEAN
    /\ nmut \in 0..MaxMut

(* ======================================================================= *)
(* The page format read in unbounded integers, as section 6 of the design  *)
(* describes it; the properties below compare the accessors against it.    *)
(* ======================================================================= *)
InPage(p, len) == 0 <= p /\ p + len <= BTreePageSize
RefU16(d, p) == d[p] + 256 * d[p + 1]
RefCount(d) == RefU16(d, 2)
RefBase(d) == Header + 8 * RefCount(d) + 2 * RefCount(d)
RefSlot(d, i) == Header + 8 * RefCount(d) + 2 * (i - 1)
RefEnd(d, i) == IF i = 0 THEN 0 ELSE RefU16(d, RefSlot(d, i))
RefRecord(d, i) == RefBase(d) + RefEnd(d, i)
RefKey(d, i) ==
    LET s == RefRecord(d, i) IN Bytes(d, s + 4, s + 4 + RefU16(d, s))
RefVal(d, i) ==
    LET s == RefRecord(d, i)
    IN  Bytes(d, s + 4 + RefU16(d, s), s + 4 + RefU16(d, s) + RefU16(d, s + 2))

(* header, n pointer slots, n offset slots and n packed records, all inside *)
(* the page, slot i holding the end of record i-1                           *)
WellFormed(d) ==
    /\ RefBase(d) <= BTreePageSize
    /\ \A i \in 0..(RefCount(d) - 1) :
          /\ InPage(RefRecord(d, i), 4)
          /\ RefEnd(d, i + 1) =
                RefEnd(d, i) + 4 + RefU16(d, RefRecord(d, i)) + RefU16(d, RefRecord(d, i) + 2)
          /\ InPage(RefRecord(d, i + 1), 0)

(* ----------------------------------------------------------------------- *)
(* C1: for every node with key count n and every i with 0 <= i <= n,        *)
(* kvPos(i) returns, and returns Header + 8n + 2n + e, where e = 0 for      *)
(* i = 0 and e = the stored offset slot i for 1 <= i <= n.                  *)
(* ----------------------------------------------------------------------- *)
C1_kvPosTotal ==
    (op = "kvPos" /\ args[1] <= numKeys(data)) =>
        /\ ~panicked
        /\ args[1] >= 1 => InPage(RefSlot(data, args[1]), 2)
        /\ ret = <<RefBase(data) + RefEnd(data, args[1])>>

(* ----------------------------------------------------------------------- *)
(* C2: on a node laid out as the page format prescribes, for 0 <= i < n,    *)
(* getKey(i) returns the key bytes of record i and getVal(i) its value      *)
(* bytes, the first record i = 0 included.                                  *)
(* ----------------------------------------------------------------------- *)
C2_getKeyValExact ==
    (op \in {"getKey", "getVal"} /\ WellFormed(data) /\ args[1] < numKeys(data)) =>
        /\ ~panicked
        /\ ret = IF op = "getKey" THEN RefKey(data, args[1]) ELSE RefVal(data, args[1])

(* ----------------------------------------------------------------------- *)
(* C3: on a well-formed node with n >= 0 keys, numBytes() returns           *)
(* Header + 10n + (total length of the n records); for n = 0 it returns 4.  *)
(* ----------------------------------------------------------------------- *)
C3_numBytesUsedLength ==
    (op = "numBytes" /\ WellFormed(data)) =>
        /\ ~panicked
        /\ ret = <<RefBase(data) + RefEnd(data, RefCount(data))>>

(* ----------------------------------------------------------------------- *)
(* C4: kvPos, getKey, getVal, getOffset and setOffset called with an index  *)
(* idx > n panic and return no value; setOffset leaves the bytes unchanged. *)
(* ----------------------------------------------------------------------- *)
C4_IndexBeyondCountPanics ==
    [][ (/\ op' \in {"kvPos", "getKey", "getVal", "getOffset", "setOffset"}
         /\ args'[1] > numKeys(data))
        => (panicked' /\ ret' = <<>> /\ data' = data) ]_vars

C4_Witness ==
    /\ op = "setOffset"
    /\ args[1] > numKeys(data)
    /\ panicked
    /\ numKeys(data) > 0

(* ----------------------------------------------------------------------- *)
(* C5: getPtr(i) and setPtr(i, p) with i >= n are index violations that     *)
(* fail fatally: getPtr returns nothing and setPtr writes nothing.          *)
(* ----------------------------------------------------------------------- *)
C5_PtrIndexChecked ==
    [][ (op' \in {"getPtr", "setPtr"} /\ args'[1] >= numKeys(data))
        => (panicked' /\ data' = data) ]_vars

(* ----------------------------------------------------------------------- *)
(* C6 (as claimed): a node holding two records of maximum key and value     *)
(* length fits in the node's page of BTreePageSize bytes.                   *)
(* ----------------------------------------------------------------------- *)
C6_TwoMaxRecordsFit ==
    /\ Cardinality(DOMAIN data) = BTreePageSize
    /\ Header + 2 * 8 + 2 * 2 + 2 * (4 + BTreeMaxKeySize + BTreeMaxValSize)
          <= Cardinality(DOMAIN data)

(* ----------------------------------------------------------------------- *)
(* C6 (amended): a node holding one record of maximum key and value length  *)
(* fits in one page, Header + 8 + 2 + 4 + BTreeMaxKeySize + BTreeMaxValSize *)
(* <= BTreePageSize, and numBytes() of such a node reports that length.     *)
(* ----------------------------------------------------------------------- *)
C6_OneMaxRecordFits ==
    /\ Cardinality(DOMAIN data) = BTreePageSize
    /\ Header + 8 + 2 + 4 + BTreeMaxKeySize + BTreeMaxValSize <= Cardinality(DOMAIN data)
    /\ (op = "numBytes" /\ data = MaxLeaf) =>
          /\ ~panicked
          /\ ret = <<Header + 8 + 2 + 4 + BTreeMaxKeySize + BTreeMaxValSize>>

C6_Witness ==
    /\ op = "numBytes"
    /\ data = MaxLeaf
    /\ ~panicked
    /\ ret[1] <= BTreePageSize
    /\ Len(RefKey(data, 0)) = BTreeMaxKeySize
    /\ Len(RefVal(data, 0)) = BTreeMaxValSize

(* ----------------------------------------------------------------------- *)
(* C7: encode then decode is the identity, little-endian: after             *)
(* setHeader(t, n), bType() = t and numKeys() = n with t in bytes 0..1 and  *)
(* n in bytes 2..3; after setPtr(i, p) with i < n, getPtr(i) = p; after     *)
(* setOffset(idx, o) with 1 <= idx <= n, getOffset(idx) = o.                *)
(* ----------------------------------------------------------------------- *)
C7_RoundTrip ==
    [][ /\ (op' = "setHeader" /\ ~panicked') =>
              /\ bType(data') = args'[1]
              /\ numKeys(data') = args'[2]
              /\ data'[0] = args'[1] % 256 /\ data'[1] = args'[1] \div 256
              /\ data'[2] = args'[2] % 256 /\ data'[3] = args'[2] \div 256
        /\ (op' = "setPtr" /\ ~panicked' /\ args'[1] < numKeys(data)) =>
              /\ getPtr(data', args'[1]).ok
              /\ getPtr(data', args'[1]).v = SubSeq(args', 2, 5)
        /\ (op' = "setOffset" /\ ~panicked' /\ 1 <= args'[1] /\ args'[1] <= numKeys(data)) =>
              /\ getOffset(data', args'[1]).ok
              /\ getOffset(data', args'[1]).v = <<args'[2]>> ]_vars

(* ----------------------------------------------------------------------- *)
(* C8: on every page content each of getPtr, getOffset, kvPos, getKey,      *)
(* getVal and numBytes either panics or uses the byte position its formula  *)
(* gives in unbounded integers; none returns data found at a position that  *)
(* 16-bit wraparound produced.                                              *)
(* ----------------------------------------------------------------------- *)
C8_KvAt(d, idx) == InPage(RefSlot(d, idx), 2) /\ InPage(RefRecord(d, idx), 4)

C8_NoWraparound ==
    ~panicked =>
        CASE op = "getPtr" -> rpos = Header + 8 * args[1]
          [] op = "getOffset" -> rpos = RefSlot(data, args[1])
          [] op = "kvPos" ->
                /\ InPage(RefSlot(data, args[1]), 2)
                /\ ret = <<RefRecord(data, args[1])>>
          [] op = "numBytes" ->
                /\ InPage(RefSlot(data, RefCount(data)), 2)
                /\ ret = <<RefRecord(data, RefCount(data))>>
          [] op = "getKey" ->
                /\ C8_KvAt(data, args[1])
                /\ rpos = RefRecord(data, args[1]) + 4
          [] op = "getVal" ->
                /\ C8_KvAt(data, args[1])
                /\ rpos = RefRecord(data, args[1]) + 4 + RefU16(data, RefRecord(data, args[1]))
          [] OTHER -> TRUE

(* ----------------------------------------------------------------------- *)
(* C9: on a well-formed node, whenever getKey / getVal return, the bytes    *)
(* returned lie inside the used portion [0, numBytes()) and are the key or  *)
(* value of an existing record (idx < n); nothing past the last record is   *)
(* returned for idx = n.                                                    *)
(* ----------------------------------------------------------------------- *)
C9_ReturnsExistingRecord ==
    (op \in {"getKey", "getVal"} /\ WellFormed(data) /\ ~panicked) =>
        /\ args[1] < numKeys(data)
        /\ rpos + Len(ret) <= RefRecord(data, RefCount(data))
        /\ ret = IF op = "getKey" THEN RefKey(data, args[1]) ELSE RefVal(data, args[1])

(* ----------------------------------------------------------------------- *)
(* C10: setPtr(i, p) with i < n changes only the bytes of pointer slot i,   *)
(* [4+8i, 4+8i+8), and setOffset(idx, o) with 1 <= idx <= n changes only    *)
(* the bytes of offset slot idx, [4+8n+2(idx-1), 4+8n+2(idx-1)+2): header,  *)
(* other pointers, other offsets and records keep their bytes.              *)
(* ----------------------------------------------------------------------- *)
C10_Unchanged(lo, len) ==
    \A b \in DOMAIN data : (b < lo \/ b >= lo + len) => data'[b] = data[b]

C10_SettersFrame ==
    [][ /\ (op' = "setPtr" /\ ~panicked' /\ args'[1] < numKeys(data)) =>
              C10_Unchanged(Header + 8 * args'[1], 8)
        /\ (op' = "setOffset" /\ ~panicked' /\ 1 <= args'[1] /\ args'[1] <= numKeys(data)) =>
              C10_Unchanged(RefSlot(data, args'[1]), 2) ]_vars
====
